---- MODULE Spec2Model ----
(***************************************************************************)
(* Model of the two PDF pipelines of Adobe-Connect-The-Dots:               *)
(*   1a  process_pdfs.py               extract_outline                     *)
(*   1b  round1b_processor_advanced.py extract_sections, main              *)
(* Text is a sequence of one-character strings.  Font sizes are integers   *)
(* in tenths of a point (round(size, 1)), coordinates are integer points.  *)
(***************************************************************************)
EXTENDS Integers, Sequences, FiniteSets, TLC

\* ------------------------------------------------------------------ bounds

MaxSpans == 3
MaxLines == 5
MaxLong == 6
MaxDocs == 7
MaxSents == 5

\* ------------------------------------------------------- program constants

MAX_WORKERS == 4
TOP_K_SECTIONS == 5
TOP_K_SENTS == 3
HEADING_WORDS_MIN == 2
HEADING_WORDS_MAX == 4
MAX_HEADING_CHARS == 40
FALLBACK_WORDS_MAX == 8
SECTION_Y_TOL == 3
OUTLINE_Y_TOL == 2
RUN_MIN_SPANS == 3
TOP_SIZES == 3

\* -------------------------------------------------------------- characters

UpperOf == [a |-> "A", b |-> "B", c |-> "C", d |-> "D", e |-> "E", f |-> "F",
            g |-> "G", h |-> "H", x |-> "X", y |-> "Y"]

LowerChars == DOMAIN UpperOf

UpperChars == {UpperOf[c] : c \in LowerChars}

isupper(c) == c \in UpperChars

upper(c) == IF c \in LowerChars THEN UpperOf[c] ELSE c

lower(c) == IF c \in UpperChars THEN CHOOSE l \in LowerChars : UpperOf[l] = c ELSE c

isspace(c) == c = " "

\* unicodedata.category(ch).startswith("L")
has_letter(s) == \E i \in 1..Len(s) : s[i] \in LowerChars \cup UpperChars

\* ------------------------------------------------------------ str methods

Abs(n) == IF n < 0 THEN 0 - n ELSE n

Min(a, b) == IF a < b THEN a ELSE b

RECURSIVE lstrip(_)
lstrip(s) == IF s # <<>> /\ isspace(Head(s)) THEN lstrip(Tail(s)) ELSE s

RECURSIVE rstripOf(_, _)
rstripOf(s, chars) ==
    IF s # <<>> /\ s[Len(s)] \in chars
    THEN rstripOf(SubSeq(s, 1, Len(s) - 1), chars)
    ELSE s

strip(s) == rstripOf(lstrip(s), {" "})

\* str.split(): the maximal runs of non-whitespace characters, in order
RECURSIVE splitFrom(_, _, _)
splitFrom(s, word, acc) ==
    IF s = <<>> THEN (IF word = <<>> THEN acc ELSE Append(acc, word))
    ELSE IF isspace(Head(s))
         THEN splitFrom(Tail(s), <<>>, IF word = <<>> THEN acc ELSE Append(acc, word))
         ELSE splitFrom(Tail(s), Append(word, Head(s)), acc)

split(s) == splitFrom(s, <<>>, <<>>)

\* sep.join(parts)
RECURSIVE join(_, _)
join(sep, parts) ==
    IF parts = <<>> THEN <<>>
    ELSE IF Len(parts) = 1 THEN parts[1]
    ELSE parts[1] \o sep \o join(sep, Tail(parts))

endswith(s, chars) == s # <<>> /\ s[Len(s)] \in chars

\* str.capitalize(): first character upper-cased, the rest lower-cased
capitalize(w) ==
    [i \in 1..Len(w) |-> IF i = 1 THEN upper(w[i]) ELSE lower(w[i])]

\* re.split(r"[:\-\u2013]", t, maxsplit=1)[0]: the text before the first
\* separator ("endash" stands for the one character U+2013)
RECURSIVE firstClause(_)
firstClause(t) ==
    IF t = <<>> \/ Head(t) \in {":", "-", "endash"} THEN <<>>
    ELSE <<Head(t)>> \o firstClause(Tail(t))

clean_heading(txt) ==
    LET t == rstripOf(txt, {".", ":", ";"})
        clause == strip(firstClause(t))
        ws == split(clause)
    IN  join(<<" ">>, [i \in 1..Len(ws) |-> capitalize(ws[i])])

\* ----------------------------------------------------------- list helpers

RECURSIVE SumOf(_, _)
SumOf(seq, f) == IF seq = <<>> THEN 0 ELSE seq[1][f] + SumOf(Tail(seq), f)

\* list.sort(key=lambda x: x[f]): stable, ascending
RECURSIVE insertByKey(_, _, _)
insertByKey(sorted, e, f) ==
    IF sorted = <<>> THEN <<e>>
    ELSE IF sorted[Len(sorted)][f] <= e[f] THEN Append(sorted, e)
    ELSE Append(insertByKey(SubSeq(sorted, 1, Len(sorted) - 1), e, f),
                sorted[Len(sorted)])

RECURSIVE sortByKey(_, _)
sortByKey(seq, f) ==
    IF seq = <<>> THEN <<>>
    ELSE insertByKey(sortByKey(SubSeq(seq, 1, Len(seq) - 1), f), seq[Len(seq)], f)

\* round(total / n, 1) on sizes kept in tenths: nearest, exact halves to even
\* (the input documents below produce no exact half)
roundAvg(total, n) ==
    LET q == total \div n
        r == total % n
    IN  IF 2 * r < n THEN q
        ELSE IF 2 * r > n THEN q + 1
        ELSE IF q % 2 = 0 THEN q ELSE q + 1

Range(seq) == {seq[i] : i \in 1..Len(seq)}

SetMax(S) == CHOOSE m \in S : \A o \in S : o <= m

\* sorted(S, reverse=True)[:k]
RECURSIVE topDesc(_, _)
topDesc(S, k) ==
    IF S = {} \/ k = 0 THEN <<>>
    ELSE <<SetMax(S)>> \o topDesc(S \ {SetMax(S)}, k - 1)

SelectIdx(seq, Test(_)) ==
    LET F[i \in 0..Len(seq)] ==
            IF i = 0 THEN <<>>
            ELSE IF Test(seq[i]) THEN Append(F[i - 1], i) ELSE F[i - 1]
    IN  F[Len(seq)]

\* ------------------------------------------------- 1b: extract_sections

\* lines 54-63: the spans of all pages, in page and layout order
RECURSIVE collectPage(_, _)
collectPage(pg, raws) ==
    IF raws = <<>> THEN <<>>
    ELSE LET txt == strip(raws[1].text)
             rest == collectPage(pg, Tail(raws))
         IN  IF txt = <<>> \/ ~has_letter(txt) THEN rest
             ELSE <<[pg |-> pg, txt |-> txt, size |-> raws[1].size,
                     y0 |-> raws[1].y0, x0 |-> raws[1].x0]>> \o rest

RECURSIVE collectFrom(_, _)
collectFrom(pages, pg) ==
    IF pg > Len(pages) THEN <<>>
    ELSE collectPage(pg, pages[pg]) \o collectFrom(pages, pg + 1)

collect_spans(d) == collectFrom(d.pages, 1)

\* lines 70-75 comparing with bucket[0] in place of bucket[-1]
place_by_first_span(bs, sp) ==
    LET bucket == bs[Len(bs)]
    IN  IF Abs(sp.y0 - bucket[1].y0) < SECTION_Y_TOL
        THEN [bs EXCEPT ![Len(bs)] = Append(bucket, sp)]
        ELSE Append(bs, <<sp>>)

\* lines 70-75, one iteration: bs is `lines` followed by the open `bucket`
place_section_span(bs, sp) ==
    LET bucket == bs[Len(bs)]
    IN  IF Abs(sp.y0 - bucket[Len(bucket)].y0) < SECTION_Y_TOL
        THEN [bs EXCEPT ![Len(bs)] = Append(bucket, sp)]
        ELSE Append(bs, <<sp>>)

RECURSIVE bucket_sections(_, _)
bucket_sections(bs, todoSpans) ==
    IF todoSpans = <<>> THEN bs
    ELSE bucket_sections(place_section_span(bs, Head(todoSpans)), Tail(todoSpans))

\* line 85: "".join when more than half the spans are single characters
section_line_text(texts) ==
    IF Cardinality({i \in 1..Len(texts) : Len(texts[i]) = 1}) > Len(texts) \div 2
    THEN join(<<>>, texts)
    ELSE join(<<" ">>, texts)

\* lines 80-86, one bucket
collapse_bucket(b0) ==
    LET b == sortByKey(b0, "x0")
        texts == [i \in 1..Len(b) |-> b[i].txt]
    IN  [pg |-> b[1].pg,
         txt |-> strip(section_line_text(texts)),
         size |-> roundAvg(SumOf(b, "size"), Len(b))]

collapse(bs) == [i \in 1..Len(bs) |-> collapse_bucket(bs[i])]

\* line 89
section_top_sizes(coll) == topDesc({coll[i].size : i \in 1..Len(coll)}, TOP_SIZES)

\* lines 94-101 with the word limit 6 that line 32 replaced
is_head_six_words(ln, tops) ==
    LET words == split(ln.txt)
    IN  /\ ln.size \in Range(tops)
        /\ HEADING_WORDS_MIN <= Len(words)
        /\ Len(words) <= 6
        /\ \A i \in 1..Len(words) : words[i] # <<>> /\ isupper(words[i][1])
        /\ Len(ln.txt) <= MAX_HEADING_CHARS
        /\ ~endswith(ln.txt, {".", ":", ";"})

\* lines 94-101
is_head(ln, tops) ==
    LET words == split(ln.txt)
    IN  /\ ln.size \in Range(tops)
        /\ HEADING_WORDS_MIN <= Len(words)
        /\ Len(words) <= HEADING_WORDS_MAX
        /\ \A i \in 1..Len(words) : words[i] # <<>> /\ isupper(words[i][1])
        /\ Len(ln.txt) <= MAX_HEADING_CHARS
        /\ ~endswith(ln.txt, {".", ":", ";"})

\* line 115
is_fallback_head(ln, tops) ==
    ln.size \in Range(tops) /\ Len(split(ln.txt)) <= FALLBACK_WORDS_MAX

\* lines 92-109 and 113-122: curr is <<>> (None) or <<the open section>>
RECURSIVE segment(_, _, _, _)
segment(coll, heads, i, st) ==
    IF i > Len(coll)
    THEN st.secs \o st.curr
    ELSE IF i \in heads
    THEN segment(coll, heads, i + 1,
                 [secs |-> st.secs \o st.curr,
                  curr |-> <<[section_title |-> coll[i].txt,
                              page_number |-> coll[i].pg,
                              content |-> <<>>]>>])
    ELSE IF st.curr # <<>>
    THEN segment(coll, heads, i + 1,
                 [st EXCEPT !.curr[1].content = @ \o coll[i].txt \o <<" ">>])
    ELSE segment(coll, heads, i + 1, st)

strict_pass(coll, tops) ==
    segment(coll, {i \in 1..Len(coll) : is_head(coll[i], tops)}, 1,
            [secs |-> <<>>, curr |-> <<>>])

fallback_pass(coll, tops) ==
    segment(coll, {i \in 1..Len(coll) : is_fallback_head(coll[i], tops)}, 1,
            [secs |-> <<>>, curr |-> <<>>])

\* lines 124-132 without the test of line 127
RECURSIVE merge_keep_all(_, _, _)
merge_keep_all(secs, merged, seen) ==
    IF secs = <<>> THEN merged
    ELSE IF Len(merged) + 1 >= TOP_K_SECTIONS THEN Append(merged, secs[1])
    ELSE merge_keep_all(Tail(secs), Append(merged, secs[1]), seen)

\* lines 124-132
RECURSIVE merge_dedupe(_, _, _)
merge_dedupe(secs, merged, seen) ==
    IF secs = <<>> THEN merged
    ELSE LET title == secs[1].section_title
             m == IF title \notin seen THEN Append(merged, secs[1]) ELSE merged
         IN  IF Len(m) >= TOP_K_SECTIONS THEN m
             ELSE merge_dedupe(Tail(secs), m, seen \cup {title})

first_k(seq, k) == SubSeq(seq, 1, Min(k, Len(seq)))

\* lines 64-134 on the collected spans
sections_of_spans(sps) ==
    IF sps = <<>> THEN <<>>
    ELSE LET sorted == sortByKey(sps, "y0")
             coll == collapse(bucket_sections(<<<<sorted[1]>>>>, Tail(sorted)))
             tops == section_top_sizes(coll)
             st == strict_pass(coll, tops)
         IN  IF Len(st) < TOP_K_SECTIONS
             THEN merge_dedupe(st \o fallback_pass(coll, tops), <<>>, {})
             ELSE first_k(st, TOP_K_SECTIONS)

\* extract_sections on a document fitz.open can open
extract_sections(d) == sections_of_spans(collect_spans(d))

\* --------------------------------------------------- 1a: extract_outline

\* lines 34-42: the spans of one page (pg records the page they came from)
collect_outline_spans(pg, raws) == collectPage(pg, raws)

\* lines 45-53, one iteration: the first bucket whose first span is close
place_outline_span(bs, s) ==
    LET fits == {i \in 1..Len(bs) : Abs(bs[i][1].y0 - s.y0) < OUTLINE_Y_TOL}
    IN  IF fits = {} THEN Append(bs, <<s>>)
        ELSE LET i == CHOOSE k \in fits : \A o \in fits : k <= o
             IN  [bs EXCEPT ![i] = Append(@, s)]

\* lines 58-61: "".join for a run of at least 3 single characters
outline_line_text(texts) ==
    IF (\A i \in 1..Len(texts) : Len(texts[i]) = 1) /\ Len(texts) >= RUN_MIN_SPANS
    THEN join(<<>>, texts)
    ELSE join(<<" ">>, texts)

\* lines 54-67: avg_y0 is kept exact as ysum / n
RECURSIVE build_lines(_, _)
build_lines(pg, bs) ==
    IF bs = <<>> THEN <<>>
    ELSE LET b == sortByKey(bs[1], "x0")
             text == strip(outline_line_text([i \in 1..Len(b) |-> b[i].txt]))
             rest == build_lines(pg, Tail(bs))
         IN  IF ~has_letter(text) THEN rest
             ELSE <<[page |-> pg, text |-> text,
                     size |-> roundAvg(SumOf(b, "size"), Len(b)),
                     ysum |-> SumOf(b, "y0"), n |-> Len(b)]>> \o rest

\* lines 70-76: sorted(first_page, key=avg_y0)[0], or the file stem
pick_title(lns, stem) ==
    LET first_page == SelectIdx(lns, LAMBDA l : l.page = 1)
        before(i, j) == lns[i].ysum * lns[j].n < lns[j].ysum * lns[i].n
    IN  IF first_page = <<>> THEN stem
        ELSE lns[CHOOSE i \in Range(first_page) :
                    \A j \in Range(first_page) \ {i} :
                        before(i, j) \/ (~before(j, i) /\ i < j)].text

\* line 79 without reverse=True
RECURSIVE topAsc(_, _)
topAsc(S, k) ==
    IF S = {} \/ k = 0 THEN <<>>
    ELSE LET m == CHOOSE x \in S : \A o \in S : x <= o
         IN  <<m>> \o topAsc(S \ {m}, k - 1)

outline_sizes_ascending(lns) == topAsc({lns[i].size : i \in 1..Len(lns)}, TOP_SIZES)

\* line 79
outline_sizes(lns) == topDesc({lns[i].size : i \in 1..Len(lns)}, TOP_SIZES)

\* line 80: f"H{i+1}"
level_name(i) == <<"H1", "H2", "H3">>[i]

make_level_map(sizes) ==
    [sz \in Range(sizes) |-> level_name(CHOOSE i \in 1..Len(sizes) : sizes[i] = sz)]

\* lines 83-89 without the test of seen in line 87
RECURSIVE assemble_outline_all(_, _, _, _)
assemble_outline_all(lns, lmap, out, seen) ==
    IF lns = <<>> THEN out
    ELSE LET l == lns[1]
         IN  IF l.size \in DOMAIN lmap
             THEN assemble_outline_all(Tail(lns), lmap,
                      Append(out, [level |-> lmap[l.size], text |-> l.text,
                                   page |-> l.page]),
                      seen)
             ELSE assemble_outline_all(Tail(lns), lmap, out, seen)

\* lines 83-89
RECURSIVE assemble_outline(_, _, _, _)
assemble_outline(lns, lmap, out, seen) ==
    IF lns = <<>> THEN out
    ELSE LET l == lns[1]
         IN  IF l.size \in DOMAIN lmap /\ l.text \notin seen
             THEN assemble_outline(Tail(lns), lmap,
                      Append(out, [level |-> lmap[l.size], text |-> l.text,
                                   page |-> l.page]),
                      seen \cup {l.text})
             ELSE assemble_outline(Tail(lns), lmap, out, seen)

\* ----------------------------------------------------- input documents
\* A document is [readable, stem, pages]; a page is the sequence of its raw
\* spans [text, size, y0, x0] in layout order.  fitz.open raises on a
\* document that is not readable.

Rep(c, n) == [i \in 1..n |-> c]

Word(n) == <<"A">> \o Rep("b", n - 1)

T_Strict == <<"A", "b", " ", "C", "d">>
T_One == <<"A", "b">>
T_Four == <<"A", "b", " ", "C", "d", " ", "E", "f", " ", "G", "h">>
T_Five38 == Word(7) \o <<" ">> \o Word(7) \o <<" ">> \o Word(7) \o <<" ">>
            \o Word(7) \o <<" ">> \o Word(6)
T_Lower == <<"A", "b", " ", "c", "d">>
T_Digit == <<"A", "b", " ", "1", "c">>
T_Len40 == Word(20) \o <<" ">> \o Word(19)
T_Len41 == Word(20) \o <<" ">> \o Word(20)
T_Dot == <<"A", "b", " ", "C", "d", " ", "E", "f", ".">>
T_Colon == <<"A", "b", " ", "C", "d", ":">>
T_Semi == <<"A", "b", " ", "C", "d", ";">>
T_Dash == <<"A", "b", " ", "-", " ", "C", "d">>
T_Eight == <<"a", " ", "b", " ", "c", " ", "d", " ", "e", " ", "f", " ", "g", " ", "h">>
T_Body == T_Eight \o <<" ", "x", ".">>
T_NoLetter == <<"1", ".">>
T_Padded == <<" ", "A", "b", " ", "C", "d", " ">>

TextPool == {T_Strict, T_One, T_Four, T_Five38, T_Lower, T_Digit, T_Len40,
             T_Len41, T_Dot, T_Colon, T_Semi, T_Dash, T_Eight, T_Body,
             T_NoLetter, T_Padded}

SizePool == {100, 110, 120, 140}

YPool == {0, 1, 3}

XPool == {0, 1}

LetterSeq == <<"a", "b", "c", "d", "e", "f", "g", "h">>

Letter(i) == LetterSeq[((i - 1) % Len(LetterSeq)) + 1]

MkDoc(pages) == [readable |-> TRUE, stem |-> <<"f">>, pages |-> pages]

Unreadable == [readable |-> FALSE, stem |-> <<"f">>, pages |-> <<>>]

\* the raw spans of f that lie on page p, in order
PageOf(f, p) ==
    LET idx == SelectIdx(f, LAMBDA k : k.pg = p)
    IN  [i \in 1..Len(idx) |->
            [text |-> f[idx[i]].text, size |-> f[idx[i]].size,
             y0 |-> f[idx[i]].y0, x0 |-> f[idx[i]].x0]]

TwoPages(f) == MkDoc(<<PageOf(f, 1), PageOf(f, 2)>>)

\* up to MaxSpans spans anywhere on two pages; the left span is a capital
\* letter set large, the right one two lower-case words set small
ClusterKinds ==
    {[pg |-> p, y0 |-> y, x0 |-> x,
      text |-> IF x = 0 THEN <<"A">> ELSE <<"b", " ", "c">>,
      size |-> IF x = 0 THEN 120 ELSE 100] :
        p \in 1..2, y \in YPool, x \in XPool}

ClusterDocs(maxSpans) ==
    {TwoPages(f) : f \in UNION {[1..n -> ClusterKinds] : n \in 1..maxSpans}}

\* one line per span, 10 points apart, the first half on page 1
LinesDoc(n, Text(_), Size(_)) ==
    TwoPages([i \in 1..n |->
        [pg |-> IF i <= (n + 1) \div 2 THEN 1 ELSE 2,
         y0 |-> 10 * i, x0 |-> 0, text |-> Text(i), size |-> Size(i)]])

NonIncreasing(n) ==
    {l \in [1..n -> SizePool] : \A i \in 1..(n - 1) : l[i] >= l[i + 1]}

FillerText(i) ==
    CASE i % 4 = 1 -> T_Body [] i % 4 = 2 -> T_Four [] i % 4 = 3 -> T_Dot
      [] OTHER -> T_Lower

\* a probe line of any text and size, first or last among lines of
\* non-increasing sizes
HeadingDocs(maxLines) ==
    UNION {
        {LinesDoc(n,
                  LAMBDA i : IF i = k THEN t ELSE FillerText(i),
                  LAMBDA i : IF i = k THEN sz
                             ELSE IF i < k THEN l[i] ELSE l[i - 1]) :
            k \in {1, n}, t \in TextPool, sz \in SizePool,
            l \in NonIncreasing(n - 1)} :
        n \in 1..maxLines}

\* lines of one size, one group per kind: "H" a strict heading of its own
\* followed by a line of body text, "F" a fallback-only heading of its own,
\* "D" the repeated heading "Ab Cd"
RECURSIVE LongLines(_, _)
LongLines(ks, i) ==
    IF i > Len(ks) THEN <<>>
    ELSE (CASE ks[i] = "H" ->
                 <<<<upper(Letter(i)), "b", " ", upper(Letter(i)), "d">>, T_Body>>
            [] ks[i] = "F" -> <<<<Letter(i), "b", " ", Letter(i)>>>>
            [] OTHER -> <<T_Strict>>) \o LongLines(ks, i + 1)

LongDocs(maxLong) ==
    UNION {
        {LinesDoc(Len(LongLines(ks, 1)),
                  LAMBDA i : LongLines(ks, 1)[i], LAMBDA i : 120) :
            ks \in [1..n -> {"H", "F", "D"}]} :
        n \in 1..maxLong}

NoText == {Unreadable, MkDoc(<<>>)}

\* ------------------------------------------------------------- 1b: main

\* the files of the input directory: file 1 is a scan without text, file 2
\* has two headings (the second without body), the others one heading each
B_Four == <<"a", " ", "b", ".", " ", "c", " ", "d", "!", " ", "e", " ", "f", "?",
            " ", " ", "g", " ", "h", " ", "x", " ", "y", " ", "x", ".">>
B_Two == <<"e", " ", "b", " ", "c", " ", "d", " ", "e", ".", " ",
           "a", " ", "g", " ", "h", " ", "x", ".">>

T_Eb == <<"E", "b", " ", "E", "d">>

LibTitle(i) ==
    CASE i % 3 = 0 -> T_Eb
      [] i % 3 = 1 -> <<"C", "b", " ", "-", "C", "d">>
      [] OTHER -> T_Colon

LibDoc(i) ==
    IF i = 1 THEN MkDoc(<<<<[text |-> T_NoLetter, size |-> 100, y0 |-> 10, x0 |-> 0]>>>>)
    ELSE IF i = 2
    THEN MkDoc(<<<<[text |-> T_Strict, size |-> 140, y0 |-> 10, x0 |-> 0],
                   [text |-> B_Four, size |-> 100, y0 |-> 20, x0 |-> 0],
                   [text |-> T_Eb, size |-> 140, y0 |-> 30, x0 |-> 0]>>>>)
    ELSE MkDoc(<<<<[text |-> LibTitle(i), size |-> 140, y0 |-> 10, x0 |-> 0],
                   [text |-> IF i % 2 = 0 THEN B_Four ELSE B_Two,
                    size |-> 100, y0 |-> 20, x0 |-> 0]>>>>)

LibSections == [i \in 1..MaxDocs |-> extract_sections(LibDoc(i))]

\* the embedding collaborator: cosine similarity of a text to the query,
\* a fixed function of the text (here of its first character)
SimTable == [A |-> 2, C |-> 1, E |-> 3, a |-> 1, c |-> 3, e |-> 2, g |-> 4]

cos_sim(text) ==
    IF text # <<>> /\ text[1] \in DOMAIN SimTable THEN SimTable[text[1]] ELSE 0

\* lines 174-177: sorted(..., key=score, reverse=True) is stable
RECURSIVE insertByScore(_, _)
insertByScore(sorted, e) ==
    IF sorted = <<>> THEN <<e>>
    ELSE IF sorted[Len(sorted)].score >= e.score THEN Append(sorted, e)
    ELSE Append(insertByScore(SubSeq(sorted, 1, Len(sorted) - 1), e),
                sorted[Len(sorted)])

RECURSIVE sortByScore(_)
sortByScore(seq) ==
    IF seq = <<>> THEN <<>>
    ELSE insertByScore(sortByScore(SubSeq(seq, 1, Len(seq) - 1)), seq[Len(seq)])

rank_sections(secs) ==
    sortByScore([i \in 1..Len(secs) |->
        [section_title |-> secs[i].section_title,
         page_number |-> secs[i].page_number,
         content |-> secs[i].content,
         filename |-> secs[i].filename,
         score |-> cos_sim(secs[i].section_title)]])

\* lines 180-188 without the test of line 182
RECURSIVE select_final_any_doc(_, _, _)
select_final_any_doc(scored, fin, seen) ==
    IF scored = <<>> THEN fin
    ELSE LET f == Append(fin, [scored[1] EXCEPT !.section_title = clean_heading(@)])
         IN  IF Len(f) = TOP_K_SECTIONS THEN f
             ELSE select_final_any_doc(Tail(scored), f, seen)

\* lines 180-188
RECURSIVE select_final(_, _, _)
select_final(scored, fin, seen) ==
    IF scored = <<>> THEN fin
    ELSE LET s == scored[1]
             f == IF s.filename \notin seen
                  THEN Append(fin, [s EXCEPT !.section_title = clean_heading(@)])
                  ELSE fin
         IN  IF Len(f) = TOP_K_SECTIONS THEN f
             ELSE select_final(Tail(scored), f, seen \cup {s.filename})

\* lines 189-190
with_ranks(fin) ==
    [i \in 1..Len(fin) |->
        [section_title |-> fin[i].section_title,
         page_number |-> fin[i].page_number,
         content |-> fin[i].content,
         filename |-> fin[i].filename,
         score |-> fin[i].score,
         importance_rank |-> i]]

\* line 199: page.get_text().replace("\n", " ").strip(), one text line per span
page_text(d, pg) ==
    strip(join(<<>>, [i \in 1..Len(d.pages[pg]) |-> d.pages[pg][i].text \o <<" ">>]))

\* line 201: re.split(r"(?<=[.!?]) +", cont)
RECURSIVE re_split(_, _, _)
re_split(s, cur, acc) ==
    IF s = <<>> THEN Append(acc, cur)
    ELSE IF isspace(Head(s)) /\ cur # <<>> /\ cur[Len(cur)] \in {".", "!", "?"}
    THEN re_split(lstrip(s), <<>>, Append(acc, cur))
    ELSE re_split(Tail(s), Append(cur, Head(s)), acc)

\* lines 201-202
split_sentences(cont) ==
    LET parts == re_split(cont, <<>>, <<>>)
        keep == SelectIdx(parts, LAMBDA q : strip(q) # <<>>)
    IN  [i \in 1..Len(keep) |-> strip(parts[keep[i]])]

Injective(seq) == \A i, j \in 1..Len(seq) : i # j => seq[i] # seq[j]

\* line 208: sim_s.topk(k).indices, the indices of k largest values in
\* descending order of value; which of several equal values comes first, or is
\* taken at all, is not specified
topk_indices(sims, k) ==
    {ix \in [1..k -> 1..Len(sims)] :
        /\ Injective(ix)
        /\ \A i \in 1..(k - 1) : sims[ix[i]] >= sims[ix[i + 1]]
        /\ \A j \in 1..Len(sims) : j \notin Range(ix) => sims[j] <= sims[ix[k]]}

\* line 210: idxs.sort()
RECURSIVE sortInts(_)
sortInts(S) ==
    IF S = {} THEN <<>>
    ELSE LET m == CHOOSE x \in S : \A o \in S : x <= o
         IN  <<m>> \o sortInts(S \ {m})

\* line 210 left out: the indices stay in descending order of similarity
unsorted_indices(ix) == ix

sort_indices(ix) == sortInts(Range(ix))

\* line 211
join_sentences(sents, ix) == join(<<" ">>, [i \in 1..Len(ix) |-> sents[ix[i]]])

\* lines 201-211: every refined text the section's content can produce
refined_texts(cont, Sim(_)) ==
    LET sents == split_sentences(cont)
        sims == [i \in 1..Len(sents) |-> Sim(sents[i])]
    IN  IF sents = <<>> THEN {cont}
        ELSE {join_sentences(sents, sort_indices(ix)) :
                ix \in topk_indices(sims, Min(TOP_K_SENTS, Len(sents)))}

\* lines 195-199
section_text(sec) ==
    LET cont == strip(sec.content)
    IN  IF cont = <<>> THEN page_text(LibDoc(sec.filename), sec.page_number)
        ELSE cont

\* lines 193-217: every subsection_analysis list the loop can produce
RECURSIVE refine_all(_)
refine_all(fin) ==
    IF fin = <<>> THEN {<<>>}
    ELSE {<<[document |-> fin[1].filename, refined_text |-> r,
             page_number |-> fin[1].page_number]>> \o rest :
            r \in refined_texts(section_text(fin[1]), cos_sim),
            rest \in refine_all(Tail(fin))}

\* lines 226-234
extracted_sections(fin) ==
    [i \in 1..Len(fin) |->
        [document |-> fin[i].filename,
         section_title |-> fin[i].section_title,
         importance_rank |-> fin[i].importance_rank,
         page_number |-> fin[i].page_number]]

\* ------------------------------------------------------------------ state

VARIABLES
    pipeline,    \* "outline" (1a extract_outline) or "sections" (1b extract_sections)
    doc,         \* the document passed in
    pc,          \* position in the function
    pageNo,      \* 1a: page_num of the page loop
    spans,       \* 1b: spans after the sort by y0; 1a: the spans of the page
    todo,        \* the spans the bucket loop has not placed yet
    buckets,     \* 1a: buckets; 1b: lines followed by the open bucket
    lines,       \* 1a: lines
    collapsed,   \* 1b: collapsed
    top_sizes,   \* 1b: top_sizes; 1a: sizes
    strict,      \* 1b: strict
    fallback,    \* 1b: fallback
    ran_fallback,\* 1b: whether the branch of line 112 was taken
    result,      \* 1b: the returned list; 1a: the returned outline
    title        \* 1a: title

exvars == <<pipeline, doc, pc, pageNo, spans, todo, buckets, lines, collapsed,
            top_sizes, strict, fallback, ran_fallback, result, title>>

VARIABLES
    docs,        \* main: spec["documents"], the file names in order
    on_disk,     \* main: the listed files that exist in the input directory
    pending,     \* main: the futures as_completed has not yielded yet
    mpc,         \* main: position
    all_secs,    \* main: all_secs
    scored,      \* main: scored
    final,       \* main: final
    sub_anal,    \* main: sub_anal
    output       \* main: the output file, <<>> while not written

mvars == <<docs, on_disk, pending, mpc, all_secs, scored, final, sub_anal, output>>

VARIABLES
    cont,        \* refinement: cont
    sim_s,       \* refinement: sim_s, one similarity per sentence
    rpc,         \* refinement: position
    sents,       \* refinement: sents
    idxs,        \* refinement: idxs
    refined      \* refinement: refined

rvars == <<cont, sim_s, rpc, sents, idxs, refined>>

vars == <<exvars, mvars, rvars>>

ExIdle ==
    /\ pipeline = "none" /\ doc = Unreadable /\ pc = "idle" /\ pageNo = 0
    /\ spans = <<>> /\ todo = <<>> /\ buckets = <<>> /\ lines = <<>>
    /\ collapsed = <<>> /\ top_sizes = <<>> /\ strict = <<>> /\ fallback = <<>>
    /\ ran_fallback = FALSE /\ result = <<>> /\ title = <<>>

MainIdle ==
    /\ docs = <<>> /\ on_disk = {} /\ pending = {} /\ mpc = "idle"
    /\ all_secs = <<>> /\ scored = <<>> /\ final = <<>> /\ sub_anal = <<>>
    /\ output = <<>>

RefineIdle ==
    /\ cont = <<>> /\ sim_s = <<>> /\ rpc = "idle" /\ sents = <<>>
    /\ idxs = <<>> /\ refined = <<>>

ExInit(pipelines, documents) ==
    /\ pipeline \in pipelines
    /\ doc \in documents
    /\ pc = "open"
    /\ pageNo = 0
    /\ spans = <<>>
    /\ todo = <<>>
    /\ buckets = <<>>
    /\ lines = <<>>
    /\ collapsed = <<>>
    /\ top_sizes = <<>>
    /\ strict = <<>>
    /\ fallback = <<>>
    /\ ran_fallback = FALSE
    /\ result = <<>>
    /\ title = <<>>

SortBuckets(bs) == [i \in 1..Len(bs) |-> sortByKey(bs[i], "x0")]

\* 1b lines 52-69
SecOpen ==
    /\ pipeline = "sections" /\ pc = "open"
    /\ IF ~doc.readable
       THEN pc' = "raised" /\ UNCHANGED <<spans, todo, buckets>>
       ELSE LET sps == collect_spans(doc)
                sorted == sortByKey(sps, "y0")
            IN  IF sps = <<>>
                THEN pc' = "done" /\ UNCHANGED <<spans, todo, buckets>>
                ELSE /\ pc' = "bucket"
                     /\ spans' = sorted
                     /\ todo' = Tail(sorted)
                     /\ buckets' = <<<<sorted[1]>>>>
    /\ UNCHANGED <<pipeline, doc, pageNo, lines, collapsed, top_sizes, strict,
                   fallback, ran_fallback, result, title>>
    /\ UNCHANGED <<mvars, rvars>>

\* 1b lines 70-75, one iteration
SecPlace ==
    /\ pipeline = "sections" /\ pc = "bucket" /\ todo # <<>>
    /\ buckets' = place_section_span(buckets, Head(todo))
    /\ todo' = Tail(todo)
    /\ UNCHANGED <<pipeline, doc, pc, pageNo, spans, lines, collapsed, top_sizes,
                   strict, fallback, ran_fallback, result, title>>
    /\ UNCHANGED <<mvars, rvars>>

\* 1b lines 76-89
SecCollapse ==
    /\ pipeline = "sections" /\ pc = "bucket" /\ todo = <<>>
    /\ buckets' = SortBuckets(buckets)
    /\ collapsed' = collapse(buckets)
    /\ top_sizes' = section_top_sizes(collapse(buckets))
    /\ pc' = "strict"
    /\ UNCHANGED <<pipeline, doc, pageNo, spans, todo, lines, strict, fallback,
                   ran_fallback, result, title>>
    /\ UNCHANGED <<mvars, rvars>>

\* 1b lines 91-112 and 133-134
SecStrict ==
    /\ pipeline = "sections" /\ pc = "strict"
    /\ LET st == strict_pass(collapsed, top_sizes)
       IN  /\ strict' = st
           /\ IF Len(st) < TOP_K_SECTIONS
              THEN pc' = "fallback" /\ UNCHANGED result
              ELSE pc' = "done" /\ result' = first_k(st, TOP_K_SECTIONS)
    /\ UNCHANGED <<pipeline, doc, pageNo, spans, todo, buckets, lines, collapsed,
                   top_sizes, fallback, ran_fallback, title>>
    /\ UNCHANGED <<mvars, rvars>>

\* 1b lines 113-132
SecFallback ==
    /\ pipeline = "sections" /\ pc = "fallback"
    /\ LET fb == fallback_pass(collapsed, top_sizes)
       IN  /\ fallback' = fb
           /\ result' = merge_dedupe(strict \o fb, <<>>, {})
    /\ ran_fallback' = TRUE
    /\ pc' = "done"
    /\ UNCHANGED <<pipeline, doc, pageNo, spans, todo, buckets, lines, collapsed,
                   top_sizes, strict, title>>
    /\ UNCHANGED <<mvars, rvars>>

\* 1a line 28
OutOpen ==
    /\ pipeline = "outline" /\ pc = "open"
    /\ IF ~doc.readable
       THEN pc' = "raised" /\ UNCHANGED pageNo
       ELSE pc' = "page" /\ pageNo' = 1
    /\ UNCHANGED <<pipeline, doc, spans, todo, buckets, lines, collapsed,
                   top_sizes, strict, fallback, ran_fallback, result, title>>
    /\ UNCHANGED <<mvars, rvars>>

\* 1a lines 32-44, one page
OutPage ==
    /\ pipeline = "outline" /\ pc = "page" /\ pageNo <= Len(doc.pages)
    /\ spans' = collect_outline_spans(pageNo, doc.pages[pageNo])
    /\ todo' = spans'
    /\ buckets' = <<>>
    /\ pc' = "bucket"
    /\ UNCHANGED <<pipeline, doc, pageNo, lines, collapsed, top_sizes, strict,
                   fallback, ran_fallback, result, title>>
    /\ UNCHANGED <<mvars, rvars>>

\* 1a lines 45-53, one iteration
OutPlace ==
    /\ pipeline = "outline" /\ pc = "bucket" /\ todo # <<>>
    /\ buckets' = place_outline_span(buckets, Head(todo))
    /\ todo' = Tail(todo)
    /\ UNCHANGED <<pipeline, doc, pc, pageNo, spans, lines, collapsed, top_sizes,
                   strict, fallback, ran_fallback, result, title>>
    /\ UNCHANGED <<mvars, rvars>>

\* 1a lines 54-67, the buckets of one page
OutLines ==
    /\ pipeline = "outline" /\ pc = "bucket" /\ todo = <<>>
    /\ buckets' = SortBuckets(buckets)
    /\ lines' = lines \o build_lines(pageNo, buckets)
    /\ pageNo' = pageNo + 1
    /\ pc' = "page"
    /\ UNCHANGED <<pipeline, doc, spans, todo, collapsed, top_sizes, strict,
                   fallback, ran_fallback, result, title>>
    /\ UNCHANGED <<mvars, rvars>>

\* 1a lines 69-91
OutAssemble ==
    /\ pipeline = "outline" /\ pc = "page" /\ pageNo > Len(doc.pages)
    /\ title' = pick_title(lines, doc.stem)
    /\ top_sizes' = outline_sizes(lines)
    /\ result' = assemble_outline(lines, make_level_map(outline_sizes(lines)),
                                  <<>>, {})
    /\ pc' = "done"
    /\ UNCHANGED <<pipeline, doc, pageNo, spans, todo, buckets, lines, collapsed,
                   strict, fallback, ran_fallback>>
    /\ UNCHANGED <<mvars, rvars>>

SecNext == SecOpen \/ SecPlace \/ SecCollapse \/ SecStrict \/ SecFallback

OutNext == OutOpen \/ OutPage \/ OutPlace \/ OutLines \/ OutAssemble

\* -------------------------------------------------------- main: actions

MainInit ==
    /\ \E n \in 0..MaxDocs :
        /\ docs = [i \in 1..n |-> i]
        /\ pending = 1..n
        /\ \E absent \in {{}} \cup {{f} : f \in 1..n} : on_disk = (1..n) \ absent
    /\ mpc = "extract"
    /\ all_secs = <<>>
    /\ scored = <<>>
    /\ final = <<>>
    /\ sub_anal = <<>>
    /\ output = <<>>

\* lines 161-163
tag_sections(secs, fn) ==
    [i \in 1..Len(secs) |->
        [section_title |-> secs[i].section_title,
         page_number |-> secs[i].page_number,
         content |-> secs[i].content,
         filename |-> fn]]

\* lines 159-163: as_completed yields a future whose worker returned
Collect(i) ==
    /\ mpc = "extract" /\ i \in pending /\ docs[i] \in on_disk
    /\ pending' = pending \ {i}
    /\ all_secs' = all_secs \o tag_sections(LibSections[docs[i]], docs[i])
    /\ UNCHANGED <<docs, on_disk, mpc, scored, final, sub_anal, output>>
    /\ UNCHANGED <<exvars, rvars>>

\* lines 52 and 161: fitz.open raised in the worker, fut.result() raises it
\* again in main, which handles no exception
CollectRaise(i) ==
    /\ mpc = "extract" /\ i \in pending /\ docs[i] \notin on_disk
    /\ pending' = pending \ {i}
    /\ mpc' = "crashed"
    /\ UNCHANGED <<docs, on_disk, all_secs, scored, final, sub_anal, output>>
    /\ UNCHANGED <<exvars, rvars>>

\* lines 166-169
NoHeadings ==
    /\ mpc = "extract" /\ pending = {} /\ all_secs = <<>>
    /\ mpc' = "no_headings"
    /\ UNCHANGED <<docs, on_disk, pending, all_secs, scored, final, sub_anal, output>>
    /\ UNCHANGED <<exvars, rvars>>

\* lines 166-190
Rank ==
    /\ mpc = "extract" /\ pending = {} /\ all_secs # <<>>
    /\ scored' = rank_sections(all_secs)
    /\ final' = with_ranks(select_final(rank_sections(all_secs), <<>>, {}))
    /\ mpc' = "refine"
    /\ UNCHANGED <<docs, on_disk, pending, all_secs, sub_anal, output>>
    /\ UNCHANGED <<exvars, rvars>>

\* lines 193-217
Refine ==
    /\ mpc = "refine"
    /\ sub_anal' \in refine_all(final)
    /\ mpc' = "write"
    /\ UNCHANGED <<docs, on_disk, pending, all_secs, scored, final, output>>
    /\ UNCHANGED <<exvars, rvars>>

\* lines 220-241 (the timestamp of the metadata is left out)
WriteOutput ==
    /\ mpc = "write"
    /\ output' = <<[input_documents |-> docs,
                    extracted_sections |-> extracted_sections(final),
                    subsection_analysis |-> sub_anal]>>
    /\ mpc' = "done"
    /\ UNCHANGED <<docs, on_disk, pending, all_secs, scored, final, sub_anal>>
    /\ UNCHANGED <<exvars, rvars>>

MainNext ==
    \/ \E i \in 1..MaxDocs : Collect(i)
    \/ \E i \in 1..MaxDocs : CollectRaise(i)
    \/ NoHeadings \/ Rank \/ Refine \/ WriteOutput

\* ------------------------------------------ sentence refinement on its own

Sentence(i) ==
    <<Letter(i), "x", CASE i % 3 = 1 -> "." [] i % 3 = 2 -> "!" [] OTHER -> "?">>

\* n sentences joined by sep, the last one with or without its end mark
RefContent(n, sep, open) ==
    LET body == join(sep, [i \in 1..n |-> Sentence(i)])
    IN  IF open /\ n > 0 THEN SubSeq(body, 1, Len(body) - 1) ELSE body

RefContents(maxSents) ==
    {RefContent(n, sep, open) :
        n \in 0..maxSents, sep \in {<<" ">>, <<" ", " ">>, <<>>}, open \in BOOLEAN}

ScorePool == {0, 1, 2, 3}

RefineInit ==
    /\ cont \in RefContents(MaxSents)
    /\ sim_s \in [1..Len(split_sentences(cont)) -> ScorePool]
    /\ rpc = "split"
    /\ sents = <<>>
    /\ idxs = <<>>
    /\ refined = <<>>

\* lines 201-204
RSplit ==
    /\ rpc = "split"
    /\ sents' = split_sentences(cont)
    /\ IF split_sentences(cont) = <<>>
       THEN refined' = cont /\ rpc' = "done"
       ELSE UNCHANGED refined /\ rpc' = "topk"
    /\ UNCHANGED <<cont, sim_s, idxs>>
    /\ UNCHANGED <<exvars, mvars>>

\* lines 206-209
RTopK ==
    /\ rpc = "topk"
    /\ idxs' \in topk_indices(sim_s, Min(TOP_K_SENTS, Len(sents)))
    /\ rpc' = "sort"
    /\ UNCHANGED <<cont, sim_s, sents, refined>>
    /\ UNCHANGED <<exvars, mvars>>

\* lines 210-211
RJoin ==
    /\ rpc = "sort"
    /\ idxs' = sort_indices(idxs)
    /\ refined' = join_sentences(sents, sort_indices(idxs))
    /\ rpc' = "done"
    /\ UNCHANGED <<cont, sim_s, sents>>
    /\ UNCHANGED <<exvars, mvars>>

RefineNext == RSplit \/ RTopK \/ RJoin

\* --------------------------------------------------------- specifications

\* the line clustering of both pipelines, on spans scattered over two pages
InitCluster ==
    /\ ExInit({"outline", "sections"}, NoText \cup ClusterDocs(MaxSpans))
    /\ MainIdle /\ RefineIdle

SpecCluster == InitCluster /\ [][SecNext \/ OutNext]_vars

\* one call of extract_sections (1b) on one document
InitSections ==
    /\ ExInit({"sections"}, NoText \cup HeadingDocs(MaxLines) \cup LongDocs(MaxLong))
    /\ MainIdle /\ RefineIdle

SpecSections == InitSections /\ [][SecNext]_vars

\* one call of extract_outline (1a) on one document
InitOutline ==
    /\ ExInit({"outline"}, NoText \cup HeadingDocs(MaxLines) \cup LongDocs(MaxLong))
    /\ MainIdle /\ RefineIdle

SpecOutline == InitOutline /\ [][OutNext]_vars

\* one run of main (1b) over the listed documents
InitMain == ExIdle /\ MainInit /\ RefineIdle

SpecMain == InitMain /\ [][MainNext]_vars

\* the sentence refinement of one section
InitRefine == ExIdle /\ MainIdle /\ RefineInit

SpecRefine == InitRefine /\ [][RefineNext]_vars

\* ================================================================ claims

Ranked == mpc \in {"refine", "write", "done"}

Contributors == {all_secs[k].filename : k \in 1..Len(all_secs)}

\* C1: the final selection never holds two sections of one document nor more
\* than 5 sections, and it holds exactly 5 sections whenever at least 5
\* distinct documents contributed a candidate section.
C1_DistinctDocuments ==
    Ranked =>
        /\ Len(final) <= 5
        /\ \A i, j \in 1..Len(final) :
              i # j => final[i].filename # final[j].filename
        /\ Cardinality(Contributors) >= 5 => Len(final) = 5

\* C1 witness: six documents contributed, one of them two sections, and five
\* sections were selected.
C1_Witness ==
    /\ mpc = "done"
    /\ Cardinality(Contributors) = 6
    /\ \E i, j \in 1..Len(all_secs) :
          i # j /\ all_secs[i].filename = all_secs[j].filename
    /\ Len(final) = 5
    /\ Len(output[1].extracted_sections) = 5

Stopped == mpc \in {"done", "no_headings", "crashed"}

HasCandidates == \E i \in 1..Len(docs) : docs[i] \in on_disk /\ LibSections[docs[i]] # <<>>

\* C3: a listed document that is missing from the input directory is skipped;
\* the run ends without an output file only when no document has a candidate
\* section, and otherwise every section of the other documents was collected
\* and the output was written.
C3_MissingDocumentSkipped ==
    Stopped =>
        /\ (output = <<>>) <=> ~HasCandidates
        /\ \A i \in 1..Len(docs) : docs[i] \in on_disk =>
              \A k \in 1..Len(LibSections[docs[i]]) :
                  \E a \in 1..Len(all_secs) :
                      /\ all_secs[a].filename = docs[i]
                      /\ all_secs[a].section_title = LibSections[docs[i]][k].section_title

\* the sections in the order of the document list
RECURSIVE SubmittedOrder(_)
SubmittedOrder(i) ==
    IF i > Len(docs) THEN <<>>
    ELSE tag_sections(LibSections[docs[i]], docs[i]) \o SubmittedOrder(i + 1)

\* C9: whatever the order in which the workers complete, the selected
\* sections, their importance ranks and the refined excerpts are the ones
\* obtained when the workers complete in the order of the document list.
C9_CompletionOrderImmaterial ==
    (mpc = "done" /\ on_disk = Range(docs)) =>
        LET fin == with_ranks(select_final(rank_sections(SubmittedOrder(1)), <<>>, {}))
        IN  /\ output[1].extracted_sections = extracted_sections(fin)
            /\ output[1].subsection_analysis \in refine_all(fin)

\* the members of S in increasing order
Ascending(S) ==
    CHOOSE q \in [1..Cardinality(S) -> S] :
        \A i, j \in 1..Cardinality(S) : i < j => q[i] < q[j]

\* the sentences at the positions of S, in increasing position, one space
\* between two of them
RECURSIVE Excerpt(_, _)
Excerpt(ss, q) ==
    IF q = <<>> THEN <<>>
    ELSE IF Len(q) = 1 THEN ss[q[1]]
    ELSE ss[q[1]] \o <<" ">> \o Excerpt(ss, Tail(q))

\* C6: when the text splits into n >= 1 sentences, the refined text is made
\* of min(3, n) sentences none of which is less similar to the query than a
\* sentence left out, joined by single spaces in increasing original position.
C6_TopSentencesInOriginalOrder ==
    (rpc = "done" /\ sents # <<>>) =>
        \E S \in SUBSET (1..Len(sents)) :
            /\ Cardinality(S) = (IF Len(sents) < 3 THEN Len(sents) ELSE 3)
            /\ \A i \in S : \A j \in (1..Len(sents)) \ S : sim_s[i] >= sim_s[j]
            /\ refined = Excerpt(sents, Ascending(S))

\* C6 witness: five sentences, the similarities select positions 3, 0, 2
\* (from 0) in this order, the refined text is sentences 0, 2, 3.
C6_Witness ==
    /\ rpc = "done"
    /\ Len(sents) = 5
    /\ sim_s = <<2, 0, 1, 3, 0>>
    /\ refined = sents[1] \o <<" ">> \o sents[3] \o <<" ">> \o sents[4]

StrictRan == pipeline = "sections" /\ pc \in {"fallback", "done"} /\ collapsed # <<>>

Titles(secs) == {secs[i].section_title : i \in 1..Len(secs)}

DistinctTitles(secs) ==
    \A i, j \in 1..Len(secs) : i # j => secs[i].section_title # secs[j].section_title

IsPrefix(p, q) == Len(p) <= Len(q) /\ \A i \in 1..Len(p) : q[i] = p[i]

\* C2: when the strict pass yields fewer than 5 sections the fallback pass
\* runs and the returned list starts with all the strict-pass sections, as
\* they are and in their order, followed only by sections whose title no
\* strict-pass section has; its titles are pairwise distinct and it has at
\* most 5 entries.
C2_StrictSectionsFirst ==
    (StrictRan /\ pc = "done" /\ Len(strict) < 5) =>
        /\ ran_fallback
        /\ IsPrefix(strict, result)
        /\ \A i \in (Len(strict) + 1)..Len(result) :
              /\ result[i] \in Range(fallback)
              /\ result[i].section_title \notin Titles(strict)
        /\ DistinctTitles(result)
        /\ Len(result) <= 5

\* the sections whose title no earlier section of the list has
FirstOfTitle(secs) ==
    LET keep == {i \in 1..Len(secs) :
                    \A j \in 1..(i - 1) : secs[j].section_title # secs[i].section_title}
    IN  [k \in 1..Cardinality(keep) |-> secs[Ascending(keep)[k]]]

\* C2 as amended: as C2, but of several strict-pass sections with one title
\* only the first is returned.
C2_FirstStrictSectionsFirst ==
    (StrictRan /\ pc = "done" /\ Len(strict) < 5) =>
        /\ ran_fallback
        /\ IsPrefix(FirstOfTitle(strict), result)
        /\ \A i \in (Len(FirstOfTitle(strict)) + 1)..Len(result) :
              /\ result[i] \in Range(fallback)
              /\ result[i].section_title \notin Titles(strict)
        /\ DistinctTitles(result)
        /\ Len(result) <= 5

\* C2 witness: four strict-pass sections, two of them with one title, and two
\* fallback-only sections make a list of 5.
C2_Witness ==
    /\ StrictRan /\ pc = "done" /\ ran_fallback
    /\ Len(strict) = 4
    /\ ~DistinctTitles(strict)
    /\ Len(result) = 5
    /\ result[4].section_title \notin Titles(strict)
    /\ Len(fallback) = 6

\* the positions at which a word of t starts
WordStarts(t) == {i \in 1..Len(t) : t[i] # " " /\ (i = 1 \/ t[i - 1] = " ")}

\* the five conditions of the strict pass on line ln of the document
FiveConditions(ln) ==
    /\ Cardinality({collapsed[k].size : k \in 1..Len(collapsed)}
                   \cap {sz \in 0..200 : sz > ln.size}) < 3
    /\ Cardinality(WordStarts(ln.txt)) \in 2..4
    /\ \A i \in WordStarts(ln.txt) : ln.txt[i] \in UpperChars
    /\ Len(ln.txt) <= 40
    /\ ln.txt[Len(ln.txt)] \notin {".", ":", ";"}

\* C5: the strict pass opens a section at a line if and only if the line
\* meets all five conditions: the strict sections are, in order, the lines
\* that meet them, each with the line's text as title and the line's page.
C5_StrictHeadingIffFiveConditions ==
    StrictRan =>
        LET heads == SelectIdx(collapsed, FiveConditions)
        IN  /\ Len(strict) = Len(heads)
            /\ \A k \in 1..Len(heads) :
                  /\ strict[k].section_title = collapsed[heads[k]].txt
                  /\ strict[k].page_number = collapsed[heads[k]].pg

\* C5 witness: a 5-word line of 38 characters and a 3-word line ending in a
\* period, both of a top-3 size, open no section, while a 4-word line does.
C5_Witness ==
    /\ StrictRan /\ pc = "done"
    /\ Len(top_sizes) = 3
    /\ \E i, j \in 1..Len(collapsed) :
          /\ collapsed[i].txt = T_Five38 /\ collapsed[i].size \in Range(top_sizes)
          /\ collapsed[j].txt = T_Dot /\ collapsed[j].size \in Range(top_sizes)
    /\ Titles(strict) = {T_Four}

OutlineDone == pipeline = "outline" /\ pc = "done"

\* 1 for the largest rounded size among the lines, 2 for the next one, ...
SizeRank(sz) == 1 + Cardinality({lines[k].size : k \in 1..Len(lines)}
                                 \cap {o \in 0..200 : o > sz})

HeadingSized(k) == SizeRank(lines[k].size) <= 3

\* the heading-sized lines whose text no earlier heading-sized line has
FirstHeadings ==
    SelectIdx([k \in 1..Len(lines) |-> k],
              LAMBDA k : /\ HeadingSized(k)
                         /\ \A j \in 1..(k - 1) :
                               HeadingSized(j) => lines[j].text # lines[k].text)

\* C4: no two entries of an outline have the same text: the entries are, in
\* document order, the heading-sized lines whose text no earlier heading-sized
\* line has, whatever the page or the size of the later ones.
C4_OutlineTextsDistinct ==
    OutlineDone =>
        /\ \A i, j \in 1..Len(result) : i # j => result[i].text # result[j].text
        /\ Len(result) = Len(FirstHeadings)
        /\ \A e \in 1..Len(result) :
              /\ result[e].text = lines[FirstHeadings[e]].text
              /\ result[e].page = lines[FirstHeadings[e]].page

\* C4 witness: a heading text comes a second time, on a later page and in
\* another heading size, and the outline has it once, with the first page.
C4_Witness ==
    /\ OutlineDone
    /\ \E i, j \in 1..Len(lines) :
          /\ i < j /\ lines[i].text = lines[j].text
          /\ lines[i].page < lines[j].page
          /\ lines[i].size # lines[j].size
          /\ HeadingSized(i) /\ HeadingSized(j)
          /\ Cardinality({e \in 1..Len(result) : result[e].text = lines[i].text}) = 1
          /\ \E e \in 1..Len(result) :
                result[e].text = lines[i].text /\ result[e].page = lines[i].page

LevelOfRank == [r \in 1..3 |-> <<"H1", "H2", "H3">>[r]]

\* C7: the level of a line is a function of its rounded size alone: the
\* entries of the outline are the first heading-sized lines of each text, a
\* line being heading-sized when its size is among the 3 largest distinct
\* rounded sizes of the document, and the entry of a line of the k-th largest
\* size has level Hk; with fewer than 3 sizes only the first levels are used.
C7_LevelBySizeRank ==
    OutlineDone =>
        /\ Len(result) = Len(FirstHeadings)
        /\ \A e \in 1..Len(result) :
              LET l == lines[FirstHeadings[e]]
              IN  /\ result[e].text = l.text
                  /\ result[e].level = LevelOfRank[SizeRank(l.size)]
        /\ \A e \in 1..Len(result) :
              \E r \in 1..Cardinality({lines[k].size : k \in 1..Len(lines)}) :
                  r <= 3 /\ result[e].level = LevelOfRank[r]

\* C7 witness: lines of four sizes; two lines of one size are both in the
\* outline with one level, the levels H1, H2, H3 are all used, and the text
\* of the line of the fourth size is not in the outline.
C7_Witness ==
    /\ OutlineDone
    /\ Cardinality({lines[k].size : k \in 1..Len(lines)}) = 4
    /\ {result[e].level : e \in 1..Len(result)} = {"H1", "H2", "H3"}
    /\ \E i, j \in 1..Len(lines), a, b \in 1..Len(result) :
          /\ i # j /\ lines[i].size = lines[j].size
          /\ result[a].text = lines[i].text /\ result[b].text = lines[j].text
          /\ a # b /\ result[a].level = result[b].level
    /\ \E k \in 1..Len(lines) :
          /\ SizeRank(lines[k].size) = 4
          /\ \A e \in 1..Len(result) : result[e].text # lines[k].text

\* C8: in both pipelines the spans of a bucket all come from one page, and
\* the lines follow one another in document order, page ascending.
C8_OnePagePerLine ==
    /\ \A b \in 1..Len(buckets) :
          \A i, j \in 1..Len(buckets[b]) : buckets[b][i].pg = buckets[b][j].pg
    /\ \A i, j \in 1..Len(collapsed) : i < j => collapsed[i].pg <= collapsed[j].pg
    /\ \A i, j \in 1..Len(lines) : i < j => lines[i].page <= lines[j].page

Tolerance == IF pipeline = "outline" THEN 2 ELSE 3

\* a step of the bucket loop, which takes the span Head(todo)
Placing == pc = "bucket" /\ todo # <<>> /\ todo' = Tail(todo)

JoinsBucket(b) == buckets' = [buckets EXCEPT ![b] = Append(@, Head(todo))]

OpensBucket == buckets' = Append(buckets, <<Head(todo)>>)

\* C10: in each pipeline a span joins the most recently opened bucket when
\* its y0 is less than the tolerance (2 for the outline, 3 for the sections)
\* away from the y0 of the span that opened that bucket, and opens a new
\* bucket otherwise.
C10_JoinsLastBucketByItsFirstSpan ==
    [][Placing =>
        IF /\ buckets # <<>>
           /\ Abs(Head(todo).y0 - buckets[Len(buckets)][1].y0) < Tolerance
        THEN JoinsBucket(Len(buckets))
        ELSE OpensBucket]_vars

\* the buckets before the sort by x0: each holds its spans in the order in
\* which they joined it
Bucketing == pc = "bucket"

\* C10 as amended.  Outline: a span joins the earliest-opened bucket of its
\* page whose opening span is less than 2 away in y0, and opens a new bucket
\* when there is none; so every span of a bucket is less than 2 away from the
\* span that opened it and at least 2 away from the spans that opened the
\* earlier buckets.  Sections: the spans are taken in ascending y0 and a span
\* joins the open bucket when it is less than 3 away from the span that
\* joined it last, and opens a new bucket otherwise; so two consecutive spans
\* of a bucket are less than 3 apart and a bucket starts at least 3 after the
\* end of the one before.
C10_JoinsByFirstFitOrByLastSpan ==
    /\ [][Placing =>
            IF pipeline = "outline"
            THEN LET fits == {b \in 1..Len(buckets) :
                                Abs(buckets[b][1].y0 - Head(todo).y0) < 2}
                 IN  IF fits = {} THEN OpensBucket
                     ELSE \E b \in fits : JoinsBucket(b) /\ \A o \in fits : b <= o
            ELSE LET open == buckets[Len(buckets)]
                 IN  IF Abs(Head(todo).y0 - open[Len(open)].y0) < 3
                     THEN JoinsBucket(Len(buckets))
                     ELSE OpensBucket]_vars
    /\ [](Bucketing /\ pipeline = "outline" =>
            \A b \in 1..Len(buckets) : \A i \in 1..Len(buckets[b]) :
                /\ Abs(buckets[b][i].y0 - buckets[b][1].y0) < 2
                /\ \A a \in 1..(b - 1) :
                      Abs(buckets[b][i].y0 - buckets[a][1].y0) >= 2)
    /\ [](Bucketing /\ pipeline = "sections" =>
            /\ \A b \in 1..Len(buckets) : \A i \in 1..(Len(buckets[b]) - 1) :
                  /\ buckets[b][i].y0 <= buckets[b][i + 1].y0
                  /\ buckets[b][i + 1].y0 - buckets[b][i].y0 < 3
            /\ \A b \in 1..(Len(buckets) - 1) :
                  buckets[b + 1][1].y0 - buckets[b][Len(buckets[b])].y0 >= 3)

\* C10 witness: a line of the sections pipeline whose third span joined by
\* being close to the second, 3 points below the span that opened the line.
C10_Witness ==
    /\ Bucketing /\ pipeline = "sections" /\ todo = <<>>
    /\ Len(buckets) = 1 /\ Len(buckets[1]) = 3
    /\ buckets[1][3].y0 - buckets[1][1].y0 = 3

====
